---- MODULE Spec2Model ----
(***************************************************************************)
(* The canonical identifier assignment of the biomarker backend:           *)
(* src/id/helpers/canonical_helpers.py against the id map collection of    *)
(* a MongoDB database.                                                     *)
(*                                                                         *)
(* A Python str is modelled as a sequence of one-character strings, with   *)
(* ord/chr giving the code points, so that slicing, int(), str(), zfill(), *)
(* sort() and join() are computed as Python computes them.                 *)
(***************************************************************************)
EXTENDS Integers, Sequences, FiniteSets

VARIABLES
    ledger,            \* dbh[id_collection]: the documents, in natural (insertion) order
    pc,                \* per caller: where it stands in get_ordinal_id
    document,          \* per caller: the argument of get_ordinal_id
    hash_value,        \* per caller: local of get_ordinal_id
    core_values_str,   \* per caller: local of get_ordinal_id
    collision_status,  \* per caller: local of get_ordinal_id
    new_ordinal_id,    \* per caller: local of _new_ordinal
    hist,              \* the calls that ended, in the order they ended
    calls,             \* number of calls started so far
    arg,               \* input of the function under test (function specifications)
    out                \* its outputs, <<>> until it was applied

vars == <<ledger, pc, document, hash_value, core_values_str, collision_status,
          new_ordinal_id, hist, calls, arg, out>>

---------------------------------------------------------------------------
(* Bounds of the model *)

NCallers == 2
MaxCalls == 3
MaxComponents == 2

---------------------------------------------------------------------------
(* Python strings *)

Digits == <<"0", "1", "2", "3", "4", "5", "6", "7", "8", "9">>
Upper == <<"A", "B", "C", "D", "E", "F", "G", "H", "I", "J", "K", "L", "M",
           "N", "O", "P", "Q", "R", "S", "T", "U", "V", "W", "X", "Y", "Z", "[">>
Lower == <<"a", "b", "c", "d", "e", "f", "g", "h", "i", "j", "k", "l", "m",
           "n", "o", "p", "q", "r", "s", "t", "u", "v", "w", "x", "y", "z">>

IndexOf(table, c) == CHOOSE i \in DOMAIN table : table[i] = c
InTable(table, c) == \E i \in DOMAIN table : table[i] = c

\* ord(): ' ' is 32, '0' is 48, 'A' is 65, '[' is 91, '_' is 95, 'a' is 97
ord(c) ==
    IF c = " " THEN 32
    ELSE IF c = "_" THEN 95
    ELSE IF InTable(Digits, c) THEN 47 + IndexOf(Digits, c)
    ELSE IF InTable(Upper, c) THEN 64 + IndexOf(Upper, c)
    ELSE 96 + IndexOf(Lower, c)

chr(n) ==
    IF n = 32 THEN " "
    ELSE IF n = 95 THEN "_"
    ELSE IF n \in 48..57 THEN Digits[n - 47]
    ELSE IF n \in 65..91 THEN Upper[n - 64]
    ELSE Lower[n - 96]

\* str < str: comparison by code point, a proper prefix first
RECURSIVE StrLess(_, _)
StrLess(s, t) ==
    IF t = <<>> THEN FALSE
    ELSE IF s = <<>> THEN TRUE
    ELSE IF Head(s) = Head(t) THEN StrLess(Tail(s), Tail(t))
    ELSE ord(Head(s)) < ord(Head(t))

\* int(s) of a string of decimal digits
RECURSIVE int(_)
int(s) ==
    IF s = <<>> THEN 0
    ELSE 10 * int(SubSeq(s, 1, Len(s) - 1)) + (ord(s[Len(s)]) - 48)

\* str(n) of a natural number
RECURSIVE str(_)
str(n) ==
    IF n < 10 THEN <<chr(48 + n)>>
    ELSE Append(str(n \div 10), chr(48 + (n % 10)))

\* s.zfill(width)
RECURSIVE zfill(_, _)
zfill(s, width) == IF Len(s) >= width THEN s ELSE zfill(<<"0">> \o s, width)

\* s.split(' ')[0]
RECURSIVE SplitFirst(_)
SplitFirst(s) ==
    IF s = <<>> \/ Head(s) = " " THEN <<>>
    ELSE <<Head(s)>> \o SplitFirst(Tail(s))

\* list.sort() of a list of str: insertion into the sorted rest
RECURSIVE Insert(_, _)
Insert(v, sorted) ==
    IF sorted = <<>> THEN <<v>>
    ELSE IF StrLess(Head(sorted), v) THEN <<Head(sorted)>> \o Insert(v, Tail(sorted))
    ELSE <<v>> \o sorted

RECURSIVE Sort(_)
Sort(values) ==
    IF values = <<>> THEN <<>>
    ELSE Insert(Head(values), Sort(Tail(values)))

\* sep.join(values)
RECURSIVE join(_, _)
join(sep, values) ==
    IF values = <<>> THEN <<>>
    ELSE IF Len(values) = 1 THEN values[1]
    ELSE values[1] \o sep \o join(sep, Tail(values))

---------------------------------------------------------------------------
(* misc_functions and hashlib *)

lower(c) == IF InTable(Upper, c) /\ c # "[" THEN chr(ord(c) + 32) ELSE c

RECURSIVE lstrip(_)
lstrip(s) == IF s # <<>> /\ Head(s) = " " THEN lstrip(Tail(s)) ELSE s

RECURSIVE rstrip(_)
rstrip(s) ==
    IF s # <<>> /\ s[Len(s)] = " " THEN rstrip(SubSeq(s, 1, Len(s) - 1)) ELSE s

\* misc_fn.clean_value: trims the value and normalises its case
clean_value(v) == LET t == rstrip(lstrip(v)) IN [i \in DOMAIN t |-> lower(t[i])]

\* hashlib.sha256(s.encode('utf-8')).hexdigest(): a digest without collisions,
\* kept as the tagged preimage
sha256_hexdigest(s) == <<"sha256:">> \o s

---------------------------------------------------------------------------
(* canonical_helpers.py: the functions without the database *)

\* _extract_change: the first word of the biomarker string
_extract_change(biomarker) == SplitFirst(biomarker)

\* the loop of _generate_hash: two core values per component, in component order
RECURSIVE CoreValues(_)
CoreValues(components) ==
    IF components = <<>> THEN <<>>
    ELSE <<_extract_change(Head(components).biomarker),
           Head(components).assessed_biomarker_entity_id>>
         \o CoreValues(Tail(components))

\* _generate_hash without line 66: the core values joined in component order
_generate_hash_unsorted(doc) ==
    LET core_values == CoreValues(doc.biomarker_component)
        cleaned == [i \in DOMAIN core_values |-> clean_value(core_values[i])]
        joined == join(<<"_">>, cleaned)
    IN  [hash_value |-> sha256_hexdigest(joined), core_values_str |-> joined]

_generate_hash(doc) ==
    LET core_values == CoreValues(doc.biomarker_component)
        cleaned == [i \in DOMAIN core_values |-> clean_value(core_values[i])]
        sorted == Sort(cleaned)
        joined == join(<<"_">>, sorted)
    IN  [hash_value |-> sha256_hexdigest(joined), core_values_str |-> joined]

\* What a function gives back: a value, or an exception raised
Return(v) == [raised |-> FALSE, value |-> v]
Raise(e) == [raised |-> TRUE, value |-> <<e>>]

\* _increment_ordinal_id without lines 211-213: the second letter is advanced
\* past Z and the first letter never moves
_increment_ordinal_id_no_carry(curr_max_id) ==
    LET letters == SubSeq(curr_max_id, 1, 2)
        numbers == int(SubSeq(curr_max_id, 3, Len(curr_max_id)))
    IN  IF numbers < 9999
        THEN Return(letters \o zfill(str(numbers + 1), 4))
        ELSE IF letters = <<"Z", "Z">>
        THEN Raise("ValueError")
        ELSE Return(<<letters[1], chr(ord(letters[2]) + 1)>> \o <<"0", "0", "0", "0">>)

\* _increment_ordinal_id whose carry of lines 211-213 wraps the second letter
\* to A and leaves the first letter as it is
_increment_ordinal_id_wrap(curr_max_id) ==
    LET letters == SubSeq(curr_max_id, 1, 2)
        numbers == int(SubSeq(curr_max_id, 3, Len(curr_max_id)))
        first_letter == letters[1]
        second_letter == letters[2]
    IN  IF numbers < 9999
        THEN Return(letters \o zfill(str(numbers + 1), 4))
        ELSE IF letters = <<"Z", "Z">>
        THEN Raise("ValueError")
        ELSE IF second_letter = "Z"
        THEN Return(<<first_letter, "A">> \o <<"0", "0", "0", "0">>)
        ELSE Return(<<first_letter, chr(ord(second_letter) + 1)>> \o <<"0", "0", "0", "0">>)

_increment_ordinal_id(curr_max_id) ==
    LET letters == SubSeq(curr_max_id, 1, 2)
        numbers == int(SubSeq(curr_max_id, 3, Len(curr_max_id)))
        first_letter == letters[1]
        second_letter == letters[2]
    IN  IF numbers < 9999
        THEN Return(letters \o zfill(str(numbers + 1), 4))
        ELSE IF letters = <<"Z", "Z">>
        THEN Raise("ValueError")
        ELSE IF second_letter = "Z"
        THEN Return(<<chr(ord(first_letter) + 1), "A">> \o <<"0", "0", "0", "0">>)
        ELSE Return(<<first_letter, chr(ord(second_letter) + 1)>> \o <<"0", "0", "0", "0">>)

---------------------------------------------------------------------------
(* pymongo: the operations canonical_helpers.py uses on the id collection.  *)
(* None is the empty sequence, a document found is a sequence of one.       *)

\* collection.find_one({'hash_value': h}): the first match in natural order
RECURSIVE find_one_hash(_, _)
find_one_hash(coll, h) ==
    IF coll = <<>> THEN <<>>
    ELSE IF Head(coll).hash_value = h THEN <<Head(coll)>>
    ELSE find_one_hash(Tail(coll), h)

\* find_one without the sort of line 170: the first document in natural order
find_one_max_unsorted(coll) == IF coll = <<>> THEN <<>> ELSE <<Head(coll)>>

\* collection.find_one(sort=[('biomarker_canonical_id', DESCENDING)])
RECURSIVE find_one_max(_)
find_one_max(coll) ==
    IF coll = <<>> THEN <<>>
    ELSE LET rest == find_one_max(Tail(coll))
         IN  IF rest # <<>> /\ StrLess(Head(coll).biomarker_canonical_id,
                                        rest[1].biomarker_canonical_id)
             THEN rest
             ELSE <<Head(coll)>>

\* replace_one(..., upsert=True) in the place of insert_one: the entry of the
\* same hash_value is overwritten
insert_one_upsert(coll, doc) ==
    IF \E k \in DOMAIN coll : coll[k].hash_value = doc.hash_value
    THEN [k \in DOMAIN coll |->
             IF coll[k].hash_value = doc.hash_value THEN doc ELSE coll[k]]
    ELSE Append(coll, doc)

\* insert_one on a capped collection of one document: the entry inserted
\* pushes the earlier ones out
insert_one_capped(coll, doc) == <<doc>>

\* collection.insert_one(doc): the collection has no unique index
insert_one(coll, doc) == Append(coll, doc)

---------------------------------------------------------------------------
(* canonical_helpers.py: the functions on the database *)

\* _check_collision that never finds the hash
_check_collision_never(h, coll) == FALSE

_check_collision(h, coll) == find_one_hash(coll, h) # <<>>

\* sys.exit(1)
SysExit == [exit |-> TRUE, value |-> <<>>]
Normal(v) == [exit |-> FALSE, value |-> v]

_get_ordinal_id(h, coll) ==
    LET target_record == find_one_hash(coll, h)
    IN  IF target_record = <<>> THEN SysExit
        ELSE Normal(target_record[1].biomarker_canonical_id)

\* _new_ordinal up to the insert: the new ordinal id, or the exit on a full space
NextOrdinal(coll) ==
    LET max_entry == find_one_max(coll)
        max_ordinal_id == IF max_entry # <<>> THEN max_entry[1].biomarker_canonical_id
                          ELSE <<"A", "A", "0", "0", "0", "0">>
        incremented == _increment_ordinal_id(max_ordinal_id)
    IN  IF incremented.raised THEN SysExit ELSE Normal(incremented.value)

\* the document _new_ordinal inserts
LedgerEntry(h, cvs, id) ==
    [hash_value |-> h, biomarker_canonical_id |-> id, core_values_str |-> cvs]

\* _new_ordinal as one step: [exit, value, ledger]
_new_ordinal(h, cvs, coll) ==
    LET next == NextOrdinal(coll)
    IN  IF next.exit THEN [exit |-> TRUE, value |-> <<>>, ledger |-> coll]
        ELSE [exit |-> FALSE, value |-> next.value,
              ledger |-> insert_one(coll, LedgerEntry(h, cvs, next.value))]

\* _assign_ordinal without lines 113-115: a new ordinal whatever the collision
_assign_ordinal_always_new(h, cvs, collision, coll) == _new_ordinal(h, cvs, coll)

_assign_ordinal(h, cvs, collision, coll) ==
    IF collision
    THEN LET found == _get_ordinal_id(h, coll)
         IN  [exit |-> found.exit, value |-> found.value, ledger |-> coll]
    ELSE _new_ordinal(h, cvs, coll)

\* get_ordinal_id as one step: the tuple returned (or the exit) and the ledger left
get_ordinal_id(doc, coll) ==
    LET hashed == _generate_hash(doc)
        collision == _check_collision(hashed.hash_value, coll)
        assigned == _assign_ordinal(hashed.hash_value, hashed.core_values_str,
                                    collision, coll)
    IN  [exit |-> assigned.exit,
         canonical_id |-> assigned.value,
         hash_value |-> hashed.hash_value,
         core_values_str |-> hashed.core_values_str,
         collision_status |-> collision,
         ledger |-> assigned.ledger]

---------------------------------------------------------------------------
(* The inputs *)

Callers == 1..NCallers

Component(b, e) == [biomarker |-> b, assessed_biomarker_entity_id |-> e]
Record(components) == [biomarker_component |-> components]

\* 'up a', 'Up', 'dn' and 'e1', 'e2'
UpA == <<"u", "p", " ", "a">>
UpCap == <<"U", "p">>
Dn == <<"d", "n">>
E1 == <<"e", "1">>
E2 == <<"e", "2">>

Biomarkers == {UpA, UpCap, Dn}
Entities == {E1, E2}
Components == {Component(b, e) : b \in Biomarkers, e \in Entities}

\* every record of at most MaxComponents components
Documents ==
    {Record(c) : c \in UNION {[1..k -> Components] : k \in 0..MaxComponents}}

Orderings(n) == {f \in [1..n -> 1..n] : \A i, j \in 1..n : f[i] = f[j] => i = j}
Permuted(doc, f) ==
    Record([i \in DOMAIN doc.biomarker_component |-> doc.biomarker_component[f[i]]])

\* the records the callers submit: no component, one component, two components
\* in both orders, the same words and entities paired the other way, and a
\* descriptor that differs only in case
AllocDocuments ==
    {Record(<<>>),
     Record(<<Component(UpA, E1)>>),
     Record(<<Component(UpCap, E1)>>),
     Record(<<Component(UpA, E1), Component(Dn, E2)>>),
     Record(<<Component(Dn, E2), Component(UpA, E1)>>),
     Record(<<Component(UpA, E2), Component(Dn, E1)>>)}

\* the records concurrent callers submit: the same content twice (the descriptors
\* differ in case only) and other content
ConcurrentDocuments ==
    {Record(<<>>),
     Record(<<Component(UpA, E1)>>),
     Record(<<Component(UpCap, E1)>>)}

Id(l1, l2, d1, d2, d3, d4) == <<l1, l2, d1, d2, d3, d4>>

\* the id collection as earlier runs left it, cut down to its latest entry
EarlierEntry(id) ==
    LET hashed == _generate_hash(Record(<<Component(Dn, E1)>>))
    IN  LedgerEntry(hashed.hash_value, hashed.core_values_str, id)

StoredLedgers ==
    {<<>>,
     <<EarlierEntry(Id("A", "A", "9", "9", "9", "8"))>>,
     <<EarlierEntry(Id("A", "Z", "9", "9", "9", "9"))>>,
     <<EarlierEntry(Id("Z", "Z", "9", "9", "9", "8"))>>}

\* well-formed ordinal ids: every letter pair with the suffixes at the digit
\* boundaries
Letters == {Upper[i] : i \in 1..26}
BoundarySuffixes == {0, 1, 8, 9, 10, 99, 100, 998, 999, 1000, 5000, 9998, 9999}
WellFormedIds ==
    {<<l1, l2>> \o zfill(str(n), 4) : l1 \in Letters, l2 \in Letters, n \in BoundarySuffixes}

---------------------------------------------------------------------------
(* The state machine *)

Idle == [p \in Callers |-> "idle"]
NoDocument == [p \in Callers |-> Record(<<>>)]
NoStr == [p \in Callers |-> <<>>]
NoFlag == [p \in Callers |-> FALSE]

CallersIdle ==
    /\ pc = Idle
    /\ document = NoDocument
    /\ hash_value = NoStr
    /\ core_values_str = NoStr
    /\ collision_status = NoFlag
    /\ new_ordinal_id = NoStr
    /\ hist = <<>>
    /\ calls = 0

\* the ledgers the concurrent callers start on: empty, or one id before the last
ConcurrentLedgers ==
    {<<>>, <<EarlierEntry(Id("Z", "Z", "9", "9", "9", "8"))>>}

Init ==
    /\ ledger \in ConcurrentLedgers
    /\ CallersIdle
    /\ arg = <<>>
    /\ out = <<>>

\* a call that ended: the tuple get_ordinal_id returned, or the exit of the process
Ended(p, exit, id, inserted) ==
    [caller |-> p,
     document |-> document[p],
     exit |-> exit,
     canonical_id |-> id,
     hash_value |-> hash_value[p],
     core_values_str |-> core_values_str[p],
     collision_status |-> collision_status[p],
     inserted |-> inserted]

\* get_ordinal_id is called: line 42
Call(p, doc) ==
    /\ pc[p] = "idle"
    /\ calls < MaxCalls
    /\ calls' = calls + 1
    /\ document' = [document EXCEPT ![p] = doc]
    /\ hash_value' = [hash_value EXCEPT ![p] = _generate_hash(doc).hash_value]
    /\ core_values_str' = [core_values_str EXCEPT ![p] = _generate_hash(doc).core_values_str]
    /\ pc' = [pc EXCEPT ![p] = "check_collision"]
    /\ UNCHANGED <<ledger, collision_status, new_ordinal_id, hist, arg, out>>

\* line 43
CheckCollision(p) ==
    /\ pc[p] = "check_collision"
    /\ collision_status' =
           [collision_status EXCEPT ![p] = _check_collision(hash_value[p], ledger)]
    /\ pc' = [pc EXCEPT ![p] = "assign_ordinal"]
    /\ UNCHANGED <<ledger, document, hash_value, core_values_str, new_ordinal_id,
                   hist, calls, arg, out>>

\* lines 113-115 and 45: the existing ordinal id is looked up and returned
GetOrdinalId(p) ==
    /\ pc[p] = "assign_ordinal"
    /\ collision_status[p]
    /\ LET found == _get_ordinal_id(hash_value[p], ledger)
       IN  /\ hist' = Append(hist, Ended(p, found.exit, found.value, FALSE))
           /\ pc' = [pc EXCEPT ![p] = IF found.exit THEN "exited" ELSE "idle"]
    /\ UNCHANGED <<ledger, document, hash_value, core_values_str, collision_status,
                   new_ordinal_id, calls, arg, out>>

\* lines 116 and 170-178: the maximum is read and incremented
ReadMax(p) ==
    /\ pc[p] = "assign_ordinal"
    /\ ~collision_status[p]
    /\ LET next == NextOrdinal(ledger)
       IN  IF next.exit
           THEN /\ hist' = Append(hist, Ended(p, TRUE, <<>>, FALSE))
                /\ pc' = [pc EXCEPT ![p] = "exited"]
                /\ UNCHANGED new_ordinal_id
           ELSE /\ new_ordinal_id' = [new_ordinal_id EXCEPT ![p] = next.value]
                /\ pc' = [pc EXCEPT ![p] = "insert_one"]
                /\ UNCHANGED hist
    /\ UNCHANGED <<ledger, document, hash_value, core_values_str, collision_status,
                   calls, arg, out>>

\* lines 180-188 and 45: the entry is inserted and the new ordinal id returned
InsertOne(p) ==
    /\ pc[p] = "insert_one"
    /\ ledger' = insert_one(ledger, LedgerEntry(hash_value[p], core_values_str[p],
                                                new_ordinal_id[p]))
    /\ hist' = Append(hist, Ended(p, FALSE, new_ordinal_id[p], TRUE))
    /\ pc' = [pc EXCEPT ![p] = "idle"]
    /\ UNCHANGED <<document, hash_value, core_values_str, collision_status,
                   new_ordinal_id, calls, arg, out>>

\* Callers in any number of processes, their database operations interleaved
Next ==
    \E p \in Callers :
        \/ \E doc \in ConcurrentDocuments : Call(p, doc)
        \/ CheckCollision(p)
        \/ GetOrdinalId(p)
        \/ ReadMax(p)
        \/ InsertOne(p)

Spec == Init /\ [][Next]_vars

---------------------------------------------------------------------------
(* One caller at a time: every call of get_ordinal_id runs to its end before *)
(* the next one starts.                                                      *)

InitSeq ==
    /\ ledger \in StoredLedgers
    /\ CallersIdle
    /\ arg = <<>>
    /\ out = <<>>

\* lines 42-45 as one step of the one caller
Allocate(doc) ==
    /\ pc[1] = "idle"
    /\ calls < MaxCalls
    /\ calls' = calls + 1
    /\ LET result == get_ordinal_id(doc, ledger)
       IN  /\ ledger' = result.ledger
           /\ hist' = Append(hist,
                  [caller |-> 1,
                   document |-> doc,
                   exit |-> result.exit,
                   canonical_id |-> result.canonical_id,
                   hash_value |-> result.hash_value,
                   core_values_str |-> result.core_values_str,
                   collision_status |-> result.collision_status,
                   inserted |-> result.ledger # ledger])
           /\ pc' = [pc EXCEPT ![1] = IF result.exit THEN "exited" ELSE "idle"]
    /\ UNCHANGED <<document, hash_value, core_values_str, collision_status,
                   new_ordinal_id, arg, out>>

NextSeq == \E doc \in AllocDocuments : Allocate(doc)

SeqSpec == InitSeq /\ [][NextSeq]_vars

---------------------------------------------------------------------------
(* _increment_ordinal_id applied to a well-formed ordinal id *)

InitInc ==
    /\ ledger = <<>>
    /\ CallersIdle
    /\ arg \in WellFormedIds
    /\ out = <<>>

Increment ==
    /\ out = <<>>
    /\ out' = <<_increment_ordinal_id(arg)>>
    /\ UNCHANGED <<ledger, pc, document, hash_value, core_values_str,
                   collision_status, new_ordinal_id, hist, calls, arg>>

NextInc == Increment

IncSpec == InitInc /\ [][NextInc]_vars

---------------------------------------------------------------------------
(* get_ordinal_id applied to a record and to a permutation of its components, *)
(* on the same ledger: one without the record, or one that holds it already   *)

HashInputsOf(doc) ==
    {[document |-> doc, permuted |-> Permuted(doc, f), ledger |-> l] :
        f \in Orderings(Len(doc.biomarker_component)),
        l \in StoredLedgers \cup {get_ordinal_id(doc, s).ledger : s \in StoredLedgers}}

HashInputs == UNION {HashInputsOf(doc) : doc \in Documents}

InitHash ==
    /\ ledger = <<>>
    /\ CallersIdle
    /\ arg \in HashInputs
    /\ out = <<>>

AllocateBoth ==
    /\ out = <<>>
    /\ out' = <<get_ordinal_id(arg.document, arg.ledger),
                get_ordinal_id(arg.permuted, arg.ledger)>>
    /\ UNCHANGED <<ledger, pc, document, hash_value, core_values_str,
                   collision_status, new_ordinal_id, hist, calls, arg>>

NextHash == AllocateBoth

HashSpec == InitHash /\ [][NextHash]_vars

---------------------------------------------------------------------------
(* The claims *)

Returned(i) == ~hist[i].exit
AA0000 == Id("A", "A", "0", "0", "0", "0")
HashInLedger(h) == \E k \in DOMAIN ledger : ledger[k].hash_value = h

\* C1: under any interleaving of the callers' lookups, max-id reads and inserts,
\* the ledger holds at most one entry per hash_value.
C1_OneEntryPerHash ==
    \A i, j \in DOMAIN ledger :
        ledger[i].hash_value = ledger[j].hash_value => i = j

\* C2: under any interleaving of callers allocating different content, no two
\* ledger entries of different content carry the same canonical id.
C2_DistinctContentDistinctId ==
    \A i, j \in DOMAIN ledger :
        ledger[i].hash_value # ledger[j].hash_value
            => ledger[i].biomarker_canonical_id # ledger[j].biomarker_canonical_id

\* C3: once a call has returned (i, h) for some content, every later call for the
\* same content, whatever was allocated in between, returns the same (i, h)
\* with already_existed = TRUE.
C3_Idempotent ==
    \A i, j \in DOMAIN hist :
        (i < j /\ Returned(i) /\ hist[i].core_values_str = hist[j].core_values_str)
            => /\ Returned(j)
               /\ hist[j].canonical_id = hist[i].canonical_id
               /\ hist[j].hash_value = hist[i].hash_value
               /\ hist[j].collision_status

\* the same content allocated twice with other content allocated in between
C3_Witness ==
    \E i, k, j \in DOMAIN hist :
        /\ i < k /\ k < j
        /\ Returned(i) /\ Returned(k) /\ Returned(j)
        /\ hist[i].core_values_str = hist[j].core_values_str
        /\ hist[k].core_values_str # hist[i].core_values_str
        /\ hist[k].inserted

\* C4: a call whose content hash is already in the ledger leaves the ledger as
\* it was: nothing inserted, nothing modified.
C4_ExistingPathFrame ==
    [][(hist' # hist /\ HashInLedger(hist'[Len(hist')].hash_value))
          => ledger' = ledger]_vars

\* a call has taken the existing-entry path on a ledger that holds its hash
C4_Witness ==
    \E i \in DOMAIN hist :
        /\ Returned(i)
        /\ hist[i].collision_status
        /\ ~hist[i].inserted
        /\ HashInLedger(hist[i].hash_value)

\* C5: after any sequence of allocations, two records with different core values
\* strings have been given different canonical ids.
C5_Uniqueness ==
    \A i, j \in DOMAIN hist :
        (Returned(i) /\ Returned(j)
            /\ hist[i].core_values_str # hist[j].core_values_str)
            => hist[i].canonical_id # hist[j].canonical_id

\* three records of pairwise different core values strings were given their ids
C5_Witness ==
    \E i, j, k \in DOMAIN hist :
        /\ Returned(i) /\ Returned(j) /\ Returned(k)
        /\ hist[i].core_values_str # hist[j].core_values_str
        /\ hist[i].core_values_str # hist[k].core_values_str
        /\ hist[j].core_values_str # hist[k].core_values_str

\* C6: a record and any permutation of its components give the same core values
\* string and hash, and on the same ledger the same canonical id.
C6_OrderIndependent ==
    out # <<>> =>
        /\ out[1].core_values_str = out[2].core_values_str
        /\ out[1].hash_value = out[2].hash_value
        /\ out[1].exit = out[2].exit
        /\ out[1].canonical_id = out[2].canonical_id

\* a record whose components were reordered, and whose core values in component
\* order differ between the two orders, was allocated in both orders
C6_Witness ==
    /\ out # <<>>
    /\ arg.permuted # arg.document
    /\ CoreValues(arg.permuted.biomarker_component)
          # CoreValues(arg.document.biomarker_component)
    /\ ~out[1].exit
    /\ out[1].canonical_id # <<>>

\* C7: on a ledger that holds no entry, the first id issued is AA0000.
C7_FirstIdIsAA0000 ==
    (Len(hist) >= 1 /\ hist[1].inserted /\ Len(ledger) = 1)
        => ledger[1].biomarker_canonical_id = AA0000

\* C8: for a well-formed id, a suffix below 9999 is incremented with the letter
\* pair kept; at suffix 9999 a letter pair other than ZZ advances by one in
\* base 26 and the suffix becomes 0000.
LetterPairIndex(id) == 26 * (ord(id[1]) - 65) + (ord(id[2]) - 65)
SuffixValue(id) ==
    1000 * (ord(id[3]) - 48) + 100 * (ord(id[4]) - 48)
        + 10 * (ord(id[5]) - 48) + (ord(id[6]) - 48)
Encode(pair, n) ==
    <<chr(65 + (pair \div 26)), chr(65 + (pair % 26)),
      chr(48 + (n \div 1000)), chr(48 + ((n \div 100) % 10)),
      chr(48 + ((n \div 10) % 10)), chr(48 + (n % 10))>>

C8_IncrementRules ==
    out # <<>> =>
        /\ SuffixValue(arg) < 9999
              => out[1] = Return(Encode(LetterPairIndex(arg), SuffixValue(arg) + 1))
        /\ (SuffixValue(arg) = 9999 /\ LetterPairIndex(arg) < 675)
              => out[1] = Return(Encode(LetterPairIndex(arg) + 1, 0))

\* AZ9999 was incremented: the carry into the first letter
C8_Witness ==
    /\ arg = Id("A", "Z", "9", "9", "9", "9")
    /\ out = <<Return(Id("B", "A", "0", "0", "0", "0"))>>

\* C9: on a ledger whose maximum is ZZ9999, a call for new content ends with an
\* error returned to the caller; it never terminates the host process.
C9_ExhaustionIsReturned ==
    \A i \in DOMAIN hist : ~hist[i].exit

\* C10: the calls that ran concurrently for the same content all returned the
\* same canonical id.
C10_SameContentSameResult ==
    \A i, j \in DOMAIN hist :
        (Returned(i) /\ Returned(j) /\ hist[i].hash_value = hist[j].hash_value)
            => hist[i].canonical_id = hist[j].canonical_id

\* the k-th ordinal id after id
RECURSIVE Successor(_, _)
Successor(id, k) ==
    IF k = 0 THEN id ELSE Successor(_increment_ordinal_id(id).value, k - 1)

\* C11: once N concurrent calls for N distinct content hashes have all ended,
\* the ledger holds N new entries whose canonical ids are N consecutive
\* ordinals, the first one following the previous maximum: none equal, none
\* skipped.
C11_ConsecutiveIds ==
    ((\A p \in Callers : pc[p] = "idle")
        /\ (\A i \in DOMAIN hist : Returned(i))
        /\ (\A i, j \in DOMAIN hist :
               hist[i].hash_value = hist[j].hash_value => i = j))
    => LET n == Len(hist)
           stored == Len(ledger) - n
           ids == {ledger[k].biomarker_canonical_id : k \in (stored + 1)..Len(ledger)}
           first == CHOOSE m \in ids : \A s \in ids : ~StrLess(s, m)
       IN  \/ n = 0
           \/ /\ stored >= 0
              /\ ids = {Successor(first, k) : k \in 0..(n - 1)}
              /\ stored > 0 =>
                    first = Successor(ledger[stored].biomarker_canonical_id, 1)

\* C12: under any interleaving, an entry is inserted with a canonical id
\* strictly greater than the id of every entry the ledger holds at that moment.
C12_MonotonicIssuance ==
    [][ledger' # ledger =>
          \A k \in DOMAIN ledger :
              StrLess(ledger[k].biomarker_canonical_id,
                      ledger'[Len(ledger')].biomarker_canonical_id)]_vars

\* C13: the ledger is append-only: whatever the callers do, every entry once
\* inserted stays where it is with the same hash_value, canonical id and
\* core_values_str; no step updates or deletes an entry.
C13_AppendOnly ==
    [][/\ Len(ledger') >= Len(ledger)
       /\ \A k \in DOMAIN ledger : ledger'[k] = ledger[k]]_vars

\* two calls have inserted an entry each, the second for a hash the ledger held
C13_Witness ==
    \E i, j \in DOMAIN hist :
        /\ i < j
        /\ hist[i].inserted /\ hist[j].inserted
        /\ hist[i].hash_value = hist[j].hash_value
        /\ Len(ledger) >= 2

---------------------------------------------------------------------------
(* get_ordinal_id on a store that may fail: a pymongo operation that cannot  *)
(* reach the server, or times out, raises a PyMongoError, which no function  *)
(* of canonical_helpers.py catches.                                          *)

\* the operation that fails, if one does; a timed out insert may be lost or
\* may have been applied
StoreFailures ==
    {"none", "check_collision", "get_ordinal_id", "find_max",
     "insert_lost", "insert_applied"}

\* the outcome of a call: the tuple returned, the process exit, or the
\* exception that reaches the caller
Outcome(how, id, hashed, collision, coll) ==
    [outcome |-> how,
     canonical_id |-> id,
     hash_value |-> hashed.hash_value,
     core_values_str |-> hashed.core_values_str,
     collision_status |-> collision,
     ledger |-> coll]

\* _check_collision that takes a failed lookup for 'not found'
_check_collision_swallow(h, coll, fail) ==
    IF fail = "check_collision" THEN Return(FALSE)
    ELSE Return(_check_collision(h, coll))

\* line 88 on a store that may fail
_check_collision_store(h, coll, fail) ==
    IF fail = "check_collision" THEN Raise("PyMongoError")
    ELSE Return(_check_collision(h, coll))

\* lines 170-188 on a store that may fail
_new_ordinal_store(hashed, coll, fail) ==
    IF fail = "find_max"
    THEN Outcome("raised", <<>>, hashed, FALSE, coll)
    ELSE LET next == NextOrdinal(coll)
             entry == LedgerEntry(hashed.hash_value, hashed.core_values_str, next.value)
         IN  IF next.exit
             THEN Outcome("exit", <<>>, hashed, FALSE, coll)
             ELSE IF fail = "insert_lost"
             THEN Outcome("raised", <<>>, hashed, FALSE, coll)
             ELSE IF fail = "insert_applied"
             THEN Outcome("raised", <<>>, hashed, FALSE, insert_one(coll, entry))
             ELSE Outcome("returned", next.value, hashed, FALSE, insert_one(coll, entry))

\* lines 136-144 on a store that may fail
_get_ordinal_id_store(hashed, coll, fail) ==
    IF fail = "get_ordinal_id"
    THEN Outcome("raised", <<>>, hashed, TRUE, coll)
    ELSE LET found == _get_ordinal_id(hashed.hash_value, coll)
         IN  IF found.exit
             THEN Outcome("exit", <<>>, hashed, TRUE, coll)
             ELSE Outcome("returned", found.value, hashed, TRUE, coll)

\* lines 42-45 on a store that may fail
get_ordinal_id_store(doc, coll, fail) ==
    LET hashed == _generate_hash(doc)
        checked == _check_collision_store(hashed.hash_value, coll, fail)
    IN  IF checked.raised
        THEN Outcome("raised", <<>>, hashed, FALSE, coll)
        ELSE IF checked.value
        THEN _get_ordinal_id_store(hashed, coll, fail)
        ELSE _new_ordinal_store(hashed, coll, fail)

\* a record, a ledger without it or one that holds it already, and a failure
StoreInputs ==
    UNION {{[document |-> doc, ledger |-> l, fail |-> f] :
               l \in StoredLedgers \cup {get_ordinal_id(doc, s).ledger : s \in StoredLedgers},
               f \in StoreFailures} :
           doc \in AllocDocuments}

InitStore ==
    /\ ledger = <<>>
    /\ CallersIdle
    /\ arg \in StoreInputs
    /\ out = <<>>

AllocateOnStore ==
    /\ out = <<>>
    /\ out' = <<get_ordinal_id_store(arg.document, arg.ledger, arg.fail)>>
    /\ UNCHANGED <<ledger, pc, document, hash_value, core_values_str,
                   collision_status, new_ordinal_id, hist, calls, arg>>

NextStore == AllocateOnStore

StoreSpec == InitStore /\ [][NextStore]_vars

\* C14: a store failure is never taken for 'not found': when the lookup by
\* hash, the read of the maximum or the insert fails, the call ends with the
\* error raised to the caller, and a failed read leaves the ledger as it was;
\* no entry is added for content the ledger already holds.
C14_StoreFailureRaised ==
    out # <<>> =>
        LET r == out[1]
            known == \E k \in DOMAIN arg.ledger :
                         arg.ledger[k].hash_value = r.hash_value
        IN  /\ arg.fail = "check_collision"
                  => (r.outcome = "raised" /\ r.ledger = arg.ledger)
            /\ (arg.fail = "get_ordinal_id" /\ known)
                  => (r.outcome = "raised" /\ r.ledger = arg.ledger)
            /\ (arg.fail = "find_max" /\ ~known)
                  => (r.outcome = "raised" /\ r.ledger = arg.ledger)
            /\ (arg.fail \in {"insert_lost", "insert_applied"} /\ ~known)
                  => r.outcome \in {"raised", "exit"}
            /\ (arg.fail # "none" /\ known) => r.ledger = arg.ledger

\* the lookup failed for content the ledger holds, and the call raised
C14_Witness ==
    /\ out # <<>>
    /\ arg.fail = "check_collision"
    /\ \E k \in DOMAIN arg.ledger : arg.ledger[k].hash_value = out[1].hash_value
    /\ out[1].outcome = "raised"

\* get_ordinal_id has no loop: each step of a call moves it on towards its end
PcRank(at) ==
    IF at = "check_collision" THEN 1
    ELSE IF at = "assign_ordinal" THEN 2
    ELSE IF at = "insert_one" THEN 3
    ELSE 4

CallAdvances ==
    [][\A p \in Callers :
          (pc[p] \notin {"idle", "exited"} /\ pc'[p] # pc[p])
              => PcRank(pc'[p]) > PcRank(pc[p])]_vars

\* C15: under any interleaving a call ends either with an identifier, existing
\* or new, or with an error handed to its caller (StoreUnavailable,
\* SpaceExhausted): no call ends in any other way.
C15_EndsWithIdOrError ==
    \A p \in Callers : pc[p] # "exited"

---------------------------------------------------------------------------
(* The ordinal codec of _increment_ordinal_id: an id is split into its letter *)
(* pair and the number of its suffix, and put together again                  *)

\* lines 203-204
ordinal_decode(id) ==
    [letters |-> SubSeq(id, 1, 2), numbers |-> int(SubSeq(id, 3, Len(id)))]

\* line 206 without zfill: the suffix loses its leading zeros
ordinal_encode_unpadded(letters, numbers) == letters \o str(numbers)

\* line 206: the letters and the zero-padded number
ordinal_encode(letters, numbers) == letters \o zfill(str(numbers), 4)

\* every letter pair with the suffixes at the digit boundaries: the components
\* and the id they make, written out digit by digit
CodecInputs ==
    {[id |-> Encode(pair, n),
      letters |-> <<chr(65 + (pair \div 26)), chr(65 + (pair % 26))>>,
      numbers |-> n] :
        pair \in 0..675, n \in BoundarySuffixes}

InitCodec ==
    /\ ledger = <<>>
    /\ CallersIdle
    /\ arg \in CodecInputs
    /\ out = <<>>

RoundTrip ==
    /\ out = <<>>
    /\ out' = [recoded |->
                  ordinal_encode(ordinal_decode(arg.id).letters,
                                 ordinal_decode(arg.id).numbers),
               redecoded |-> ordinal_decode(ordinal_encode(arg.letters, arg.numbers))]
    /\ UNCHANGED <<ledger, pc, document, hash_value, core_values_str,
                   collision_status, new_ordinal_id, hist, calls, arg>>

NextCodec == RoundTrip

CodecSpec == InitCodec /\ [][NextCodec]_vars

\* C16: a well-formed id split into its letter pair and the integer of its
\* suffix and encoded again with the zero-padded 4-digit suffix is the id it
\* was; a letter pair and a number in 0..9999 encoded and decoded again are
\* the pair and the number they were.
C16_RoundTrip ==
    out # <<>> =>
        /\ out.recoded = arg.id
        /\ out.redecoded = [letters |-> arg.letters, numbers |-> arg.numbers]

\* an id whose suffix has leading zeros went through both round trips
C16_Witness ==
    /\ out # <<>>
    /\ arg.id = Id("A", "Z", "0", "0", "1", "0")
    /\ out.recoded = arg.id
    /\ out.redecoded.numbers = 10

---------------------------------------------------------------------------

\* the content of a component: its descriptor's leading word and its entity id
ComponentPair(c) ==
    <<clean_value(_extract_change(c.biomarker)),
      clean_value(c.assessed_biomarker_entity_id)>>

\* two records hold the same multiset of component pairs
SamePairs(d1, d2) ==
    LET c1 == d1.biomarker_component
        c2 == d2.biomarker_component
    IN  /\ Len(c1) = Len(c2)
        /\ \E f \in Orderings(Len(c1)) :
               \A k \in DOMAIN c1 : ComponentPair(c1[k]) = ComponentPair(c2[f[k]])

\* C17: two records whose multisets of (leading word, entity id) pairs differ
\* have different core values strings and are given different canonical ids,
\* also when they use the same words and entity ids paired differently.
C17_DifferentContentDifferentId ==
    \A i, j \in DOMAIN hist :
        (Returned(i) /\ Returned(j) /\ ~SamePairs(hist[i].document, hist[j].document))
            => /\ hist[i].core_values_str # hist[j].core_values_str
               /\ hist[i].canonical_id # hist[j].canonical_id

\* [A-Z]{2}[0-9]{4}
WellFormed(id) ==
    /\ Len(id) = 6
    /\ \A k \in 1..2 : id[k] \in Letters
    /\ \A k \in 3..6 : id[k] \in {Digits[d] : d \in DOMAIN Digits}

\* C18: after any sequence of allocations every canonical id in the ledger, and
\* every id returned, is two letters A..Z followed by four decimal digits: the
\* increment produces no letter past Z and no suffix of other than four digits.
C18_WellFormedIds ==
    /\ \A k \in DOMAIN ledger : WellFormed(ledger[k].biomarker_canonical_id)
    /\ \A i \in DOMAIN hist : Returned(i) => WellFormed(hist[i].canonical_id)

\* the increment has carried into the letters: an id with suffix 0000 was issued
C18_Witness ==
    \E i \in DOMAIN hist :
        /\ hist[i].inserted
        /\ SubSeq(hist[i].canonical_id, 3, 6) = <<"0", "0", "0", "0">>


\* supporting C18 over every letter pair (IncSpec): whatever well-formed id is
\* incremented, a returned successor is well-formed
IncrementWellFormed ==
    (out # <<>> /\ ~out[1].raised) => WellFormed(out[1].value)


NoComponents(i) == hist[i].document.biomarker_component = <<>>
FirstNoComponents(i) ==
    /\ NoComponents(i)
    /\ Returned(i)
    /\ \A j \in 1..(i - 1) : ~(NoComponents(j) /\ Returned(j))

\* C19: a record with no components has the empty core values string; the first
\* such record allocated mints one identifier (collision_status false, one
\* entry appended) and every later one returns that identifier with
\* collision_status true and appends nothing.
C19_ZeroComponents ==
    \A i \in DOMAIN hist :
        NoComponents(i) =>
            /\ hist[i].core_values_str = <<>>
            /\ FirstNoComponents(i) =>
                   /\ hist[i].inserted
                   /\ ~hist[i].collision_status
            /\ \A j \in 1..(i - 1) :
                   (FirstNoComponents(j) /\ Returned(i)) =>
                       /\ hist[i].canonical_id = hist[j].canonical_id
                       /\ hist[i].collision_status
                       /\ ~hist[i].inserted

\* a record with no components was allocated, another record after it, and then
\* a record with no components again
C19_Witness ==
    \E i, j, k \in DOMAIN hist :
        /\ i < j /\ j < k
        /\ FirstNoComponents(i)
        /\ ~NoComponents(j) /\ hist[j].inserted
        /\ NoComponents(k) /\ Returned(k)


\* the position of a well-formed id in ordinal order
OrdinalRank(id) == 10000 * LetterPairIndex(id) + SuffixValue(id)

\* the well-formed ids an id is compared with: those of its own letter pair, of
\* the pairs next to it and of the first and last pair, with the suffixes next
\* to its own and the boundary suffixes
Probes(id) ==
    LET pairs == ({LetterPairIndex(id) + d : d \in -1..1} \cup {0, 675}) \cap 0..675
        suffixes == ({SuffixValue(id) + d : d \in -1..2} \cap 0..9999) \cup BoundarySuffixes
    IN  {Encode(p, n) : p \in pairs, n \in suffixes}

\* C20: the successor _increment_ordinal_id returns for a well-formed id is
\* greater than the id in the string order find_one sorts by, no well-formed id
\* lies strictly between the two, and the string order of the id and of any
\* well-formed id is their ordinal order.
C20_StringOrderIsOrdinalOrder ==
    (out # <<>> /\ ~out[1].raised) =>
        LET next == out[1].value
            rank == OrdinalRank(arg)
        IN  /\ StrLess(arg, next)
            /\ \A w \in Probes(arg) :
                   LET above == StrLess(arg, w)
                   IN  /\ ~(above /\ StrLess(w, next))
                       /\ above <=> rank < OrdinalRank(w)
                       /\ StrLess(w, arg) <=> OrdinalRank(w) < rank

\* MZ9999 was incremented: the successor changes both letters
C20_Witness ==
    /\ arg = Id("M", "Z", "9", "9", "9", "9")
    /\ out # <<>>
    /\ ~out[1].raised
    /\ out[1].value[1] # arg[1]
    /\ out[1].value[2] # arg[2]

\* supporting C20 (SeqSpec): the entry the descending sort of line 170 finds is
\* the entry appended last
MaxIsLatest ==
    ledger # <<>> => find_one_max(ledger) = <<ledger[Len(ledger)]>>


----------------------------------------------------------------------------
(* The flag returned and what the call did *)

\* C21: a get_ordinal_id call that returns, whatever the interleaving of the
\* callers, returns collision_status (already_existed) false exactly when the
\* call itself appended an entry to the ledger, the entry of its own hash and
\* id, and true exactly when it left the ledger as it was.
C21_FlagMatchesInsert ==
    [][Len(hist') > Len(hist) =>
          LET ended == hist'[Len(hist')]
          IN  ~ended.exit =>
                  /\ ~ended.collision_status <=>
                         ledger' = Append(ledger,
                                          LedgerEntry(ended.hash_value,
                                                      ended.core_values_str,
                                                      ended.canonical_id))
                  /\ ended.collision_status <=> ledger' = ledger
                  /\ ended.inserted <=> ledger' # ledger]_vars

\* two calls for the same content raced and both inserted, and a later call for
\* that content found an entry
C21_Witness ==
    \E i, j, k \in DOMAIN hist :
        /\ i < j /\ j < k
        /\ hist[i].hash_value = hist[j].hash_value
        /\ hist[j].hash_value = hist[k].hash_value
        /\ Returned(i) /\ ~hist[i].collision_status /\ hist[i].inserted
        /\ Returned(j) /\ ~hist[j].collision_status /\ hist[j].inserted
        /\ Returned(k) /\ hist[k].collision_status /\ ~hist[k].inserted


----------------------------------------------------------------------------
(* The exit of _get_ordinal_id *)

\* C22: under any interleaving of the callers, a caller whose _check_collision
\* found an entry for its hash finds one again in _get_ordinal_id: the lookup
\* it is about to make does not end the process, and no call that took the
\* existing-entry path has ended the process.
C22_LookupExitUnreachable ==
    /\ \A p \in Callers :
           (pc[p] = "assign_ordinal" /\ collision_status[p])
               => ~_get_ordinal_id(hash_value[p], ledger).exit
    /\ \A i \in DOMAIN hist : hist[i].collision_status => ~hist[i].exit

\* a call found an entry and returned its id after another caller had inserted
\* an entry of other content behind it
C22_Witness ==
    \E i \in DOMAIN hist :
        /\ Returned(i)
        /\ hist[i].collision_status
        /\ \E k \in DOMAIN ledger :
               /\ ledger[k].hash_value = hist[i].hash_value
               /\ k < Len(ledger)
               /\ ledger[Len(ledger)].hash_value # hist[i].hash_value
               /\ \E j \in 1..(i - 1) :
                      /\ hist[j].inserted
                      /\ hist[j].caller # hist[i].caller
                      /\ hist[j].hash_value = ledger[Len(ledger)].hash_value


----------------------------------------------------------------------------
(* tutils/db.py: setup_index.  The indexes of a collection are a set of      *)
(* [name, field, direction, unique]; None is the empty sequence, a name      *)
(* given is a sequence of one.                                               *)

IndexOn(name, field, direction, unique) ==
    [name |-> name, field |-> field, direction |-> direction, unique |-> unique]

\* collection.index_information(): the names of the indexes
index_information(indexes) == {ix.name : ix \in indexes}

\* collection.create_index([(field, direction)], name=name, unique=unique) on a
\* collection in which the fields of `duplicated` hold a value twice: the
\* server takes an index it already has for done, refuses a name or a key
\* pattern that is taken by another index, and refuses a unique index over
\* duplicated values
create_index(indexes, field, direction, name, unique, duplicated) ==
    LET wanted == IndexOn(name, field, direction, unique)
    IN  IF wanted \in indexes
        THEN Return(indexes)
        ELSE IF \E ix \in indexes : ix.name = name
        THEN Raise("OperationFailure")
        ELSE IF \E ix \in indexes : ix.field = field /\ ix.direction = direction
        THEN Raise("OperationFailure")
        ELSE IF unique /\ field \in duplicated
        THEN Raise("DuplicateKeyError")
        ELSE Return(indexes \cup {wanted})

\* what a call of setup_index did: returned or raised, the message printed, the
\* number of create_index calls made, and the indexes left
IndexOutcome(how, message, create_calls, indexes) ==
    [outcome |-> how, message |-> message, create_calls |-> create_calls,
     indexes |-> indexes]

\* lines 89-102
SetupCreate(indexes, index_field, unique, order, name, duplicated) ==
    IF order \in {"ascending", "descending"}
    THEN LET direction == IF order = "ascending" THEN "ASCENDING" ELSE "DESCENDING"
             made == create_index(indexes, index_field, direction, name, unique,
                                  duplicated)
         IN  IF made.raised
             THEN IndexOutcome("raised", made.value, 1, indexes)
             ELSE IndexOutcome("returned", <<"Created">>, 1, made.value)
    ELSE IndexOutcome("returned", <<"Created">>, 0, indexes)

\* the name setup_index looks for: lines 86-87
IndexName(index_field, order, index_name) ==
    IF index_name = <<>> THEN index_field \o "_" \o order ELSE index_name[1]

\* setup_index without the test of line 88
setup_index_unguarded(indexes, index_field, unique, order, index_name, duplicated) ==
    SetupCreate(indexes, index_field, unique, order,
                IndexName(index_field, order, index_name), duplicated)

setup_index(indexes, index_field, unique, order, index_name, duplicated) ==
    LET name == IndexName(index_field, order, index_name)
    IN  IF name \notin index_information(indexes)
        THEN SetupCreate(indexes, index_field, unique, order, name, duplicated)
        ELSE IndexOutcome("returned", <<"already exists">>, 0, indexes)

IndexCall(index_field, unique, order, index_name) ==
    [index_field |-> index_field, unique |-> unique, order |-> order,
     index_name |-> index_name]

\* the calls made: default and given names, both orders, an order that is
\* neither, a given name that is the default name of another call, and a second
\* name for a key pattern
IndexCalls ==
    {IndexCall("hash_value", FALSE, "ascending", <<>>),
     IndexCall("hash_value", TRUE, "ascending", <<>>),
     IndexCall("hash_value", FALSE, "descending", <<>>),
     IndexCall("hash_value", FALSE, "ascending", <<"by_hash">>),
     IndexCall("biomarker_canonical_id", TRUE, "descending", <<"hash_value_ascending">>),
     IndexCall("biomarker_canonical_id", TRUE, "descending", <<"canonical_id">>),
     IndexCall("biomarker_canonical_id", FALSE, "asc", <<>>)}

IdIndex == IndexOn("_id_", "_id", "ASCENDING", FALSE)

\* the collection the calls start on: its indexes, and the fields that hold a
\* value twice
IndexedCollections ==
    {[indexes |-> ixs, duplicated |-> dup] :
        ixs \in {{IdIndex},
                 {IdIndex, IndexOn("hash_value_ascending", "hash_value", "ASCENDING", FALSE)}},
        dup \in {{}, {"hash_value"}, {"biomarker_canonical_id"}}}

\* the indexes of the collection after the calls made so far
Indexes == IF out = <<>> THEN arg.indexes ELSE out[Len(out)].result.indexes

InitIndex ==
    /\ ledger = <<>>
    /\ CallersIdle
    /\ arg \in IndexedCollections
    /\ out = <<>>

SetupIndex(call) ==
    /\ calls < MaxCalls
    /\ calls' = calls + 1
    /\ out' = Append(out,
                     [call |-> call,
                      before |-> Indexes,
                      result |-> setup_index(Indexes, call.index_field, call.unique,
                                             call.order, call.index_name,
                                             arg.duplicated)])
    /\ UNCHANGED <<ledger, pc, document, hash_value, core_values_str,
                   collision_status, new_ordinal_id, hist, arg>>

NextIndex == \E call \in IndexCalls : SetupIndex(call)

IndexSpec == InitIndex /\ [][NextIndex]_vars

NameOf(call) == IndexName(call.index_field, call.order, call.index_name)
Created(k) == out[k].result.indexes # out[k].before

\* C23: of the calls of setup_index with the same collection, field, order and
\* index name at most one adds an index, and after one of them has returned the
\* later ones leave the indexes as they are; a call that finds its index name
\* in index_information returns without a create_index call and leaves the
\* indexes unchanged.
C23_SetupIndexIdempotent ==
    /\ \A i, j \in DOMAIN out :
           (i < j /\ out[i].call = out[j].call) =>
               /\ ~(Created(i) /\ Created(j))
               /\ out[i].result.outcome = "returned" => ~Created(j)
    /\ \A k \in DOMAIN out :
           NameOf(out[k].call) \in index_information(out[k].before) =>
               /\ out[k].result.outcome = "returned"
               /\ out[k].result.create_calls = 0
               /\ out[k].result.indexes = out[k].before

\* a call created its index, a call for another index followed, and the first
\* call made again found the index there
C23_Witness ==
    /\ Len(out) = 3
    /\ out[1].call = out[3].call
    /\ out[2].call # out[1].call
    /\ Created(1)
    /\ Created(2)
    /\ out[3].result.message = <<"already exists">>
    /\ out[3].result.indexes = out[3].before

====
